---- MODULE Spec2Model ----
(***************************************************************************)
(* Model of the two programs of gocv-examples:                             *)
(*   yolo4/main.go           extractPredictions (decode + NMS)             *)
(*   orb/edit-video/main.go  myVWManager.FadeImageInto                     *)
(*                                                                         *)
(* Floating point values are modelled exactly as dyadic rationals: a       *)
(* geometry column holds q/GeomDen, a score column holds s/ScoreDen, a     *)
(* delay holds d/DelayDen seconds.  With these denominators (powers of     *)
(* two) and the small integers used here every float32/float64 product of  *)
(* the code is exact, so integer arithmetic on numerators is what the      *)
(* code computes.                                                          *)
(***************************************************************************)
EXTENDS Integers, Sequences, FiniteSets, TLC

VARIABLES
    \* ---- yolo4: extractPredictions ----
    detLayers,    \* []gocv.Mat: sequence of layers, each a sequence of rows
    imgSize,      \* []int{height, width}
    classLabels,  \* []string
    pc,           \* position in extractPredictions
    li,           \* index of the layer being ranged over (1-based)
    j,            \* row index inside the layer (1-based)
    cur,          \* locals of the last row iteration: row, confidence, maxLoc
    yd,           \* candidates (sorted in place at line 110)
    ydFiltered,   \* accepted detections
    k,            \* index into yd of the NMS loop (1-based)
    result,       \* value returned by extractPredictions
    \* ---- edit-video: FadeImageInto ----
    fpc,          \* position in FadeImageInto
    delay,        \* argument delay, numerator over DelayDen
    opened,       \* vwm.vWriter.IsOpened()
    fi,           \* loop counter i
    nFrames,      \* local nFrames
    alpha,        \* local alpha (rational record)
    beta,         \* local beta  (rational record)
    written,      \* frames handed to vwm.vWriter.Write, in order
    lastFrame,    \* what vwm.lastFrame refers to
    ferr          \* returned err

yoloVars == <<detLayers, imgSize, classLabels, pc, li, j, cur, yd, ydFiltered, k, result>>
fadeVars == <<fpc, delay, opened, fi, nFrames, alpha, beta, written, lastFrame, ferr>>
vars == <<detLayers, imgSize, classLabels, pc, li, j, cur, yd, ydFiltered, k, result,
          fpc, delay, opened, fi, nFrames, alpha, beta, written, lastFrame, ferr>>

None == "none"
\* cur before the first row iteration
NoRow == [kind |-> "none"]

----------------------------------------------------------------------------
(* Bounds of the model *)

\* total number of rows over all layers of a palette input
MaxRows == 3
\* number of layers of a palette input
MaxLayers == 2
\* largest delay numerator tried for FadeImageInto
MaxDelay == 14

----------------------------------------------------------------------------
(* Number representation *)

\* geometry columns 0..3 hold q/GeomDen
GeomDen == 4
\* score columns hold s/ScoreDen
ScoreDen == 8
\* delay is d/DelayDen seconds
DelayDen == 64

\* confThr = 0.5, as numerator/denominator
confThr == <<1, 2>>
\* ovrThr = 0.4, as numerator/denominator
ovrThr == <<2, 5>>
outputFPS == 30

\* Go's int(x) for a float x = num/den with den > 0, and Go's integer
\* division a/b with b > 0: both truncate toward zero.
TruncDiv(a, b) == IF a >= 0 THEN a \div b ELSE -((-a) \div b)

----------------------------------------------------------------------------
(* image.Rectangle *)

MinI(a, b) == IF a < b THEN a ELSE b
MaxI(a, b) == IF a > b THEN a ELSE b

\* image.Rect: "the returned rectangle has minimum and maximum coordinates
\* swapped if necessary so that it is well-formed"
Rect(x0, y0, x1, y1) ==
    [minX |-> MinI(x0, x1), minY |-> MinI(y0, y1),
     maxX |-> MaxI(x0, x1), maxY |-> MaxI(y0, y1)]

ZR == [minX |-> 0, minY |-> 0, maxX |-> 0, maxY |-> 0]

Empty(r) == r.minX >= r.maxX \/ r.minY >= r.maxY

\* Rectangle.Intersect: the largest rectangle contained by both; ZR when the
\* two do not overlap (also when either is empty)
Intersect(r, s) ==
    LET t == [minX |-> MaxI(r.minX, s.minX), minY |-> MaxI(r.minY, s.minY),
              maxX |-> MinI(r.maxX, s.maxX), maxY |-> MinI(r.maxY, s.maxY)]
    IN  IF Empty(t) THEN ZR ELSE t

\* r.Size().X * r.Size().Y
Area(r) == (r.maxX - r.minX) * (r.maxY - r.minY)

----------------------------------------------------------------------------
(* Decoding one row (lines 90-105) *)

\* Mat.ColRange(start, end) of a one-row Mat: columns start .. end-1 (0-based)
ColRange(row, start, end) == SubSeq(row, start + 1, end)

ScoresFromCol4(row) == ColRange(row, 4, Len(row))

\* scores := row.ColRange(5, prob.Cols())
ScoresOf(row) == ColRange(row, 5, Len(row))

\* gocv.MinMaxLoc: the maximum and the (0-based) location of its first
\* occurrence
MinMaxLoc(s) ==
    LET m == CHOOSE v \in {s[i] : i \in 1..Len(s)} : \A i \in 1..Len(s) : s[i] <= v
        x == CHOOSE i \in 1..Len(s) : s[i] = m /\ \A i2 \in 1..Len(s) : s[i2] = m => i <= i2
    IN  [maxVal |-> m, maxLocX |-> x - 1]

AboveThrOrEqual(confidence) == confidence * confThr[2] >= confThr[1] * ScoreDen

\* confidence > confThr
AboveThr(confidence) == confidence * confThr[2] > confThr[1] * ScoreDen

LookupClamped(labels, classID) ==
    IF classID < Len(labels) THEN [ok |-> TRUE, name |-> labels[classID + 1]]
    ELSE [ok |-> TRUE, name |-> ""]

\* classLabels[classID]: a Go slice index; out of range is a run-time panic
Lookup(labels, classID) ==
    IF classID < Len(labels) THEN [ok |-> TRUE, name |-> labels[classID + 1]]
    ELSE [ok |-> FALSE, name |-> ""]

\* int(row.GetFloatAt(0, c) * float32(frame))
ToPixels(q, frame) == TruncDiv(q * frame, GeomDen)

BBoxSwappedFrame(row, size) ==
    LET frameWidth == size[1]
        frameHeight == size[2]
        centerX == ToPixels(row[1], frameWidth)
        centerY == ToPixels(row[2], frameHeight)
        width == ToPixels(row[3], frameWidth)
        height == ToPixels(row[4], frameHeight)
        left == centerX - TruncDiv(width, 2)
        top == centerY - TruncDiv(height, 2)
    IN  Rect(left, top, left + width, top + height)

\* lines 97-104: the box of a row; frameWidth, frameHeight := imgSize[1], imgSize[0]
BBox(row, size) ==
    LET frameWidth == size[2]
        frameHeight == size[1]
        centerX == ToPixels(row[1], frameWidth)
        centerY == ToPixels(row[2], frameHeight)
        width == ToPixels(row[3], frameWidth)
        height == ToPixels(row[4], frameHeight)
        left == centerX - TruncDiv(width, 2)
        top == centerY - TruncDiv(height, 2)
    IN  Rect(left, top, left + width, top + height)

\* the body of the row loop: what one row does to the candidate list.
\* kind "drop": nothing appended; "emit": det appended; "panic": index out of range
ExtractRow(row, size, labels) ==
    LET mm == MinMaxLoc(ScoresOf(row))
        confidence == mm.maxVal
        classID == mm.maxLocX
        look == Lookup(labels, classID)
    IN  IF ~AboveThr(confidence)
        THEN [kind |-> "drop", confidence |-> confidence, maxLoc |-> classID]
        ELSE IF ~look.ok
        THEN [kind |-> "panic", confidence |-> confidence, maxLoc |-> classID]
        ELSE [kind |-> "emit", confidence |-> confidence, maxLoc |-> classID,
              det |-> [detClass |-> classID, detName |-> look.name,
                       detConf |-> confidence, detBBox |-> BBox(row, size)]]

----------------------------------------------------------------------------
(* Sorting and suppression (lines 109-127) *)

IsDescending(s) == \A a, b \in 1..Len(s) : a < b => s[a].detConf >= s[b].detConf

Reorderings(s) == { [i \in 1..Len(s) |-> s[p[i]]] : p \in Permutations(1..Len(s)) }

NoSort(s) == {s}

SortOutcomesByClass(s) ==
    { t \in Reorderings(s) : \A a, b \in 1..Len(t) : a < b => t[a].detClass >= t[b].detClass }

\* sort.Sort(sort.Reverse(yd)): descending by detConf; sort.Sort is not
\* stable, so equal confidences may end in any relative order
SortOutcomes(s) == { t \in Reorderings(s) : IsDescending(t) }

KeepsIoU(d, df) ==
    LET ovArea == Area(Intersect(d.detBBox, df.detBBox))
        union == Area(d.detBBox) + Area(df.detBBox) - ovArea
    IN  ovrThr[2] * ovArea <= ovrThr[1] * union

KeepsStrict(d, df) ==
    LET area == Area(d.detBBox)
        ovArea == Area(Intersect(d.detBBox, df.detBBox))
    IN  ovrThr[2] * ovArea < ovrThr[1] * area

KeepsOtherArea(d, df) ==
    LET area == Area(df.detBBox)
        ovArea == Area(Intersect(d.detBBox, df.detBBox))
    IN  ovrThr[2] * ovArea <= ovrThr[1] * area

\* float64(ovArea) <= ovrThr*float64(area), for one accepted df.  For the
\* small integers here the float64 comparison agrees with the exact one.
Keeps(d, df) ==
    LET area == Area(d.detBBox)
        ovArea == Area(Intersect(d.detBBox, df.detBBox))
    IN  ovrThr[2] * ovArea <= ovrThr[1] * area

\* the inner loop, lines 112-121: keep stays true iff every accepted df keeps d
Keep(d, filtered) == \A i \in 1..Len(filtered) : Keeps(d, filtered[i])

\* lines 122-124: append d when keep
NmsStep(d, filtered) == IF Keep(d, filtered) THEN Append(filtered, d) ELSE filtered

\* lines 111-125 over a whole (sorted) slice
RECURSIVE NmsAll(_)
NmsAll(s) ==
    IF s = <<>> THEN <<>>
    ELSE NmsStep(s[Len(s)], NmsAll(SubSeq(s, 1, Len(s) - 1)))

\* lines 89-107 over all layers: the candidate list (dets), or panicked
Panicked == [ok |-> FALSE, dets |-> <<>>]

RECURSIVE DecodeRows(_, _, _)
DecodeRows(rows, size, labels) ==
    IF rows = <<>> THEN [ok |-> TRUE, dets |-> <<>>]
    ELSE LET prev == DecodeRows(SubSeq(rows, 1, Len(rows) - 1), size, labels)
             e == ExtractRow(rows[Len(rows)], size, labels)
         IN  IF ~prev.ok \/ e.kind = "panic" THEN Panicked
             ELSE IF e.kind = "emit" THEN [ok |-> TRUE, dets |-> Append(prev.dets, e.det)]
             ELSE prev

RECURSIVE Flatten(_)
Flatten(layers) ==
    IF layers = <<>> THEN <<>>
    ELSE Flatten(SubSeq(layers, 1, Len(layers) - 1)) \o layers[Len(layers)]

DecodeAll(layers, size, labels) == DecodeRows(Flatten(layers), size, labels)

----------------------------------------------------------------------------
(* Inputs *)

Labels == <<"person", "bicycle">>
LabelLists == {SubSeq(Labels, 1, 1), Labels}

\* palette rows <<cx, cy, w, h, objectness, class0, class1>> for multi-row inputs
RowA == <<2, 2, 4, 4, 8, 7, 1>>
RowB == <<2, 2, 2, 2, 8, 1, 7>>
RowC == <<1, 2, 2, 2, 0, 6, 0>>
RowD == <<2, 2, 0, 2, 8, 1, 6>>
RowE == <<2, 2, 3, 2, 0, 5, 2>>
RowL == <<2, 2, 2, 2, 8, 4, 3>>
PaletteRows == {RowA, RowB, RowC, RowD, RowE, RowL}

\* a layer of 1..n palette rows
RowSeqs(n) == UNION { [1..m -> PaletteRows] : m \in 1..n }

RECURSIVE Layerings(_, _)
Layerings(nl, budget) ==
    IF nl = 0 THEN {<<>>}
    ELSE UNION { { <<rs>> \o rest : rest \in Layerings(nl - 1, budget - Len(rs)) }
                 : rs \in RowSeqs(budget) }

\* layers without rows, alone and beside layers with rows
EmptyLayerings ==
    { << <<>> >>, << <<>>, <<>> >>, << <<>>, <<RowA>> >>, << <<RowA, RowB>>, <<>> >>,
      << <<RowB>>, <<>>, <<RowL, RowA>> >> }

PaletteInputs ==
    { [layers |-> l, size |-> <<4, 6>>, labels |-> lb] :
        l \in UNION { Layerings(nl, MaxRows) : nl \in 0..MaxLayers } \cup EmptyLayerings,
        lb \in LabelLists }

\* single-row inputs over a wide range of geometry and score values
WideRows ==
    { <<cx, cy, w, h, o, c0, c1>> :
        cx \in {0, 1, 3}, cy \in {2, 3}, w \in {-2, -1, 0, 1, 3, 4}, h \in {-2, 2, 3},
        o \in {0, 8}, c0 \in {3, 4, 5}, c1 \in {0, 4, 5, 6} }

WideInputs ==
    { [layers |-> << <<r>> >>, size |-> sz, labels |-> lb] :
        r \in WideRows, sz \in {<<4, 6>>, <<5, 3>>}, lb \in LabelLists }

Inputs == PaletteInputs \cup WideInputs

----------------------------------------------------------------------------
(* extractPredictions as a state machine *)

FadeIdle ==
    /\ fpc = "idle" /\ delay = 0 /\ opened = FALSE /\ fi = 0 /\ nFrames = 0
    /\ alpha = None /\ beta = None /\ written = <<>> /\ lastFrame = None /\ ferr = None

Init ==
    /\ \E in \in Inputs :
          /\ detLayers = in.layers
          /\ imgSize = in.size
          /\ classLabels = in.labels
    /\ pc = "decode"
    /\ li = 1
    /\ j = 1
    /\ cur = NoRow
    /\ yd = <<>>
    /\ ydFiltered = <<>>
    /\ k = 1
    /\ result = None
    /\ FadeIdle

\* one iteration of the row loop, lines 90-106
DecodeRow ==
    /\ pc = "decode"
    /\ li <= Len(detLayers)
    /\ j <= Len(detLayers[li])
    /\ LET row == detLayers[li][j]
           e == ExtractRow(row, imgSize, classLabels)
       IN  /\ cur' = [row |-> row, confidence |-> e.confidence, maxLoc |-> e.maxLoc,
                      kind |-> e.kind]
           /\ IF e.kind = "panic"
              THEN /\ pc' = "panic"
                   /\ UNCHANGED <<yd, j>>
              ELSE /\ pc' = pc
                   /\ j' = j + 1
                   /\ yd' = IF e.kind = "emit" THEN Append(yd, e.det) ELSE yd
    /\ UNCHANGED <<detLayers, imgSize, classLabels, li, ydFiltered, k, result>>
    /\ UNCHANGED fadeVars

\* the row loop of one layer ends (j == prob.Rows()): next layer
LayerDone ==
    /\ pc = "decode"
    /\ li <= Len(detLayers)
    /\ j > Len(detLayers[li])
    /\ li' = li + 1
    /\ j' = 1
    /\ UNCHANGED <<detLayers, imgSize, classLabels, pc, cur, yd, ydFiltered, k, result>>
    /\ UNCHANGED fadeVars

\* the layer loop ends; line 110 sorts yd in place
SortCandidates ==
    /\ pc = "decode"
    /\ li > Len(detLayers)
    /\ yd' \in SortOutcomes(yd)
    /\ pc' = "nms"
    /\ k' = 1
    /\ UNCHANGED <<detLayers, imgSize, classLabels, li, j, cur, ydFiltered, result>>
    /\ UNCHANGED fadeVars

\* one iteration of the loop over yd, lines 111-125
Suppress ==
    /\ pc = "nms"
    /\ k <= Len(yd)
    /\ ydFiltered' = NmsStep(yd[k], ydFiltered)
    /\ k' = k + 1
    /\ UNCHANGED <<detLayers, imgSize, classLabels, pc, li, j, cur, yd, result>>
    /\ UNCHANGED fadeVars

\* line 127
Return ==
    /\ pc = "nms"
    /\ k > Len(yd)
    /\ result' = ydFiltered
    /\ pc' = "done"
    /\ UNCHANGED <<detLayers, imgSize, classLabels, li, j, cur, yd, ydFiltered, k>>
    /\ UNCHANGED fadeVars

Next == DecodeRow \/ LayerDone \/ SortCandidates \/ Suppress \/ Return

Spec == Init /\ [][Next]_vars

----------------------------------------------------------------------------
(* Properties of extractPredictions *)

Range(s) == { s[i] : i \in 1..Len(s) }

Count(x, s) == Cardinality({ i \in 1..Len(s) : s[i] = x })

SameElements(s, t) ==
    /\ Len(s) = Len(t)
    /\ \A x \in Range(s) \cup Range(t) : Count(x, s) = Count(x, t)

\* the rows whose loop iteration has completed
ProcessedRows ==
    IF pc = "idle" THEN <<>>
    ELSE IF li > Len(detLayers) THEN Flatten(detLayers)
    ELSE Flatten(SubSeq(detLayers, 1, li - 1)) \o SubSeq(detLayers[li], 1, j - 1)

\* the class scores of a row: from the sixth column on
ClassScoreSet(row) == { row[c] : c \in 6..Len(row) }
MaxClassScore(row) == CHOOSE m \in ClassScoreSet(row) : \A v \in ClassScoreSet(row) : v <= m
FirstMaxClass(row) ==
    CHOOSE c \in 6..Len(row) :
        row[c] = MaxClassScore(row) /\ \A c2 \in 6..(c - 1) : row[c2] < row[c]
\* strictly more than one half
StrictlyAbove(score) == 2 * score > ScoreDen

AllDetections ==
    Range(yd) \cup Range(ydFiltered) \cup (IF pc = "done" THEN Range(result) ELSE {})

\* The greedy reference of C1: candidates
\* visited in confidence-descending order, d appended iff no detection df
\* appended before has area(d.box /\ df.box) > 0.4 * area(d.box); the result is
\* in append order, non-increasing in confidence, and for i < j
\* area(out[i] /\ out[j]) <= 0.4 * area(out[j]).
RECURSIVE GreedyReference(_)
GreedyReference(s) ==
    IF s = <<>> THEN <<>>
    ELSE LET acc == GreedyReference(SubSeq(s, 1, Len(s) - 1))
             d == s[Len(s)]
         IN  IF \E i \in 1..Len(acc) :
                    5 * Area(Intersect(d.detBBox, acc[i].detBBox)) > 2 * Area(d.detBBox)
             THEN acc ELSE Append(acc, d)

\* C1: while and after the loop of lines 111-125 runs, yd is the decoded
\* candidates in confidence-descending order, ydFiltered is the greedy reference
\* over the candidates visited so far, and the returned sequence is the greedy
\* reference over all of them, non-increasing in confidence and pairwise
\* within the overlap bound.
SuppressionIsGreedy ==
    /\ pc \in {"nms", "done"} =>
          /\ LET c == DecodeAll(detLayers, imgSize, classLabels)
             IN  c.ok /\ SameElements(yd, c.dets)
          /\ \A a, b \in 1..Len(yd) : a < b => yd[a].detConf >= yd[b].detConf
          /\ ydFiltered = GreedyReference(SubSeq(yd, 1, k - 1))
    /\ pc = "done" =>
          /\ result = GreedyReference(yd)
          /\ \A a, b \in 1..Len(result) : a < b =>
                /\ result[a].detConf >= result[b].detConf
                /\ 5 * Area(Intersect(result[a].detBBox, result[b].detBBox))
                      <= 2 * Area(result[b].detBBox)

SuppressionWitness ==
    /\ pc = "done"
    /\ Len(yd) = 3
    /\ Len(result) = 2
    /\ result[1].detConf > result[2].detConf
    /\ Area(Intersect(result[1].detBBox, result[2].detBBox)) > 0

\* C2: every candidate, and every detection of the output, has confidence
\* strictly above the threshold; a row whose maximum score is equal to or below
\* the threshold yields no candidate and no error; every other row yields
\* exactly one candidate (the rows that end the call in the lookup panic of C7
\* never complete their iteration and are not among the processed rows).
ConfidenceStrictlyAboveThreshold ==
    /\ \A d \in AllDetections : StrictlyAbove(d.detConf)
    /\ pc \in {"decode", "panic", "nms", "done"} =>
          Len(yd) = Len(SelectSeq(ProcessedRows, LAMBDA r : StrictlyAbove(MaxClassScore(r))))
    /\ (cur.kind # "none" /\ ~StrictlyAbove(MaxClassScore(cur.row))) => cur.kind = "drop"
    /\ (cur.kind # "none" /\ cur.kind = "drop") => ~StrictlyAbove(MaxClassScore(cur.row))

ThresholdBoundaryWitness ==
    /\ pc = "decode"
    /\ cur.kind # "none"
    /\ 2 * MaxClassScore(cur.row) = ScoreDen
    /\ cur.kind = "drop"
    /\ Len(yd) = 1

\* C3 as stated: confidence is the maximum over the columns from index 4 to the
\* last, classId the position of that maximum counted from column 4.
ScoresStartAtColumn4 ==
    cur.kind # "none" =>
        LET cols == 5..Len(cur.row)
            m == CHOOSE v \in { cur.row[c] : c \in cols } : \A c \in cols : cur.row[c] <= v
            first == CHOOSE c \in cols : cur.row[c] = m /\ \A c2 \in cols : cur.row[c2] = m => c <= c2
        IN  /\ cur.confidence = m
            /\ cur.maxLoc = first - 5

\* C3 amended: the row is split after its first FIVE columns: confidence is the
\* maximum over the columns from index 5 to the last, classId the zero-based
\* position of (the first occurrence of) that maximum counted from column 5;
\* column 4 takes no part.
ScoresStartAtColumn5 ==
    cur.kind # "none" =>
        /\ cur.confidence = MaxClassScore(cur.row)
        /\ cur.maxLoc = FirstMaxClass(cur.row) - 6
        /\ (cur.kind = "emit" /\ pc = "decode") =>
              /\ yd[Len(yd)].detConf = MaxClassScore(cur.row)
              /\ yd[Len(yd)].detClass = FirstMaxClass(cur.row) - 6

Column4IgnoredWitness ==
    /\ pc = "decode"
    /\ cur.kind # "none"
    /\ cur.kind = "emit"
    /\ cur.row[5] > cur.confidence
    /\ cur.maxLoc = 1
    /\ yd[Len(yd)].detClass = 1

DistinctConfidences(s) == \A a, b \in 1..Len(s) : a # b => s[a].detConf # s[b].detConf

\* C4 as stated: suppressing the output again (sort, then the greedy pass)
\* returns the same sequence, also when detections have equal confidence.
ResuppressionIsIdentity ==
    pc = "done" => \A s \in SortOutcomes(result) : NmsAll(s) = result

\* C4 amended: suppressing the output again returns the same sequence provided
\* no two detections of that output have equal confidence.
ResuppressionIsIdentityWithoutTies ==
    (pc = "done" /\ DistinctConfidences(result)) =>
        \A s \in SortOutcomes(result) : NmsAll(s) = result

ResuppressionWitness ==
    /\ pc = "done"
    /\ Len(result) = 2
    /\ Len(yd) = 3
    /\ DistinctConfidences(result)
    /\ Area(Intersect(result[1].detBBox, result[2].detBBox)) > 0

\* C5 as stated: for every permutation of the layers the candidate set before
\* suppression is the same and the final output sequence is identical, also
\* with equal confidences.
LayerOrderIrrelevant ==
    /\ (pc = "nms" /\ k = 1) =>
          \A p \in Reorderings(detLayers) :
              LET c == DecodeAll(p, imgSize, classLabels)
              IN  c.ok /\ Range(c.dets) = Range(yd)
    /\ pc = "done" =>
          \A p \in Reorderings(detLayers) :
              \A s \in SortOutcomes(DecodeAll(p, imgSize, classLabels).dets) : NmsAll(s) = result

\* C5 amended: for every permutation of the layers the candidate set before
\* suppression is the same (and a decode that panics panics for every
\* permutation); the final
\* output sequence is identical provided no two candidates have equal confidence.
LayerOrderIrrelevantWithoutTies ==
    /\ (pc = "nms" /\ k = 1) =>
          \A p \in Reorderings(detLayers) :
              LET c == DecodeAll(p, imgSize, classLabels)
              IN  c.ok /\ Range(c.dets) = Range(yd)
    /\ pc = "panic" =>
          \A p \in Reorderings(detLayers) : ~DecodeAll(p, imgSize, classLabels).ok
    /\ (pc = "done" /\ DistinctConfidences(yd)) =>
          \A p \in Reorderings(detLayers) :
              \A s \in SortOutcomes(DecodeAll(p, imgSize, classLabels).dets) : NmsAll(s) = result

LayerOrderWitness ==
    /\ pc = "done"
    /\ Len(detLayers) = 2
    /\ Len(detLayers[1]) >= 1
    /\ Len(detLayers[2]) >= 1
    /\ Len(yd) >= 2
    /\ DistinctConfidences(yd)
    /\ Len(result) < Len(yd)
    /\ DecodeAll(<<detLayers[2], detLayers[1]>>, imgSize, classLabels).dets
          # DecodeAll(detLayers, imgSize, classLabels).dets

\* r lies entirely inside s
Inside(r, s) ==
    r.minX >= s.minX /\ r.maxX <= s.maxX /\ r.minY >= s.minY /\ r.maxY <= s.maxY

\* The step of C6: in every iteration of the suppression loop, a candidate of positive area
\* lying entirely inside an accepted box is rejected whatever the two class ids
\* and however large the accepted box; a candidate containing an accepted box A
\* is rejected when area(A) > 0.4 * area(candidate), and is accepted when every
\* accepted box lies inside it with area(A) <= 0.4 * area(candidate).
ContainmentStep ==
    (pc = "nms" /\ k <= Len(yd) /\ k' = k + 1) =>
        LET d == yd[k]
            rejected == ydFiltered' = ydFiltered
            accepted == ydFiltered' = Append(ydFiltered, d)
        IN  /\ rejected \/ accepted
            /\ (Area(d.detBBox) > 0
                  /\ \E df \in Range(ydFiltered) : Inside(d.detBBox, df.detBBox)) => rejected
            /\ (\E df \in Range(ydFiltered) :
                    /\ Inside(df.detBBox, d.detBBox)
                    /\ 5 * Area(df.detBBox) > 2 * Area(d.detBBox)) => rejected
            /\ (\A df \in Range(ydFiltered) :
                    /\ Inside(df.detBBox, d.detBBox)
                    /\ 5 * Area(df.detBBox) <= 2 * Area(d.detBBox)) => accepted

\* C6: every step satisfies the containment rule above: a positive-area
\* candidate inside an accepted box is rejected, class-blind; a candidate
\* containing accepted boxes is judged by area(A) against 0.4 * area(candidate).
ContainmentRule == [][ContainmentStep]_vars

\* a candidate inside an accepted box of another class was rejected although
\* intersection over union is at most 0.4, and a box containing an accepted
\* box was accepted
ContainmentWitness ==
    /\ pc = "nms"
    /\ k = 4
    /\ Len(ydFiltered) = 2
    /\ Inside(ydFiltered[1].detBBox, ydFiltered[2].detBBox)
    /\ Area(ydFiltered[1].detBBox) > 0
    /\ Area(yd[3].detBBox) > 0
    /\ Inside(yd[3].detBBox, ydFiltered[2].detBBox)
    /\ \E df \in Range(ydFiltered) :
          /\ Inside(yd[3].detBBox, df.detBBox)
          /\ df.detClass # yd[3].detClass
          /\ 5 * Area(yd[3].detBBox) <= 2 * Area(df.detBBox)

\* the candidate decoded from a row above the threshold whose class id has no label
Unlabelled(row) ==
    /\ StrictlyAbove(MaxClassScore(row))
    /\ FirstMaxClass(row) - 6 >= Len(classLabels)

\* C7: a row above the threshold whose classId has no label ends the call in
\* the index-out-of-range panic: nothing is returned, nothing runs after it, the
\* row is not skipped, and no candidate carries a clamped or blank class name.
UnlabelledClassPanics ==
    /\ pc = "panic" <=> (cur.kind # "none" /\ Unlabelled(cur.row))
    /\ pc = "panic" => (result = None /\ ~ENABLED Next)
    /\ \A r \in Range(ProcessedRows) : ~Unlabelled(r)
    /\ \A d \in AllDetections :
          /\ d.detClass < Len(classLabels)
          /\ d.detName = classLabels[d.detClass + 1]
    /\ pc # "done" => result = None

PanicWitness ==
    /\ pc = "panic"
    /\ Len(yd) >= 1
    /\ Len(Flatten(detLayers)) > Len(ProcessedRows) + 1

\* t is x = num/den truncated toward zero (den > 0)
IsTruncation(t, num, den) ==
    /\ num >= 0 => (t * den <= num /\ num < (t + 1) * den)
    /\ num < 0 => (t * den >= num /\ num > (t - 1) * den)
Truncated(num, den) == CHOOSE t \in (-16)..16 : IsTruncation(t, num, den)
Abs(x) == IF x < 0 THEN -x ELSE x

\* C8 as stated: the box of the candidate just emitted has top-left corner
\* (centerX - width/2, centerY - height/2) and bottom-right corner
\* (left + width, top + height), so its size is width by height.
BoxCornersAsComputed ==
    (pc = "decode" /\ cur.kind # "none" /\ cur.kind = "emit") =>
        LET b == yd[Len(yd)].detBBox
            centerX == Truncated(cur.row[1] * imgSize[2], GeomDen)
            centerY == Truncated(cur.row[2] * imgSize[1], GeomDen)
            width == Truncated(cur.row[3] * imgSize[2], GeomDen)
            height == Truncated(cur.row[4] * imgSize[1], GeomDen)
            left == centerX - Truncated(width, 2)
            top == centerY - Truncated(height, 2)
        IN  /\ b.minX = left /\ b.minY = top
            /\ b.maxX = left + width /\ b.maxY = top + height
            /\ b.maxX - b.minX = width /\ b.maxY - b.minY = height

\* C8 amended: the box spans, on each axis, the two values left and left + width
\* (top and top + height) computed with truncating arithmetic, in increasing
\* order: when width and height are not negative its top-left corner is
\* (left, top), its bottom-right corner (left + width, top + height) and its
\* size width by height; when one of them is negative the two corners are
\* exchanged on that axis and the size is the absolute value.  The box is
\* never clamped to the frame.
BoxCornersCanonical ==
    (pc = "decode" /\ cur.kind # "none" /\ cur.kind = "emit") =>
        LET b == yd[Len(yd)].detBBox
            centerX == Truncated(cur.row[1] * imgSize[2], GeomDen)
            centerY == Truncated(cur.row[2] * imgSize[1], GeomDen)
            width == Truncated(cur.row[3] * imgSize[2], GeomDen)
            height == Truncated(cur.row[4] * imgSize[1], GeomDen)
            left == centerX - Truncated(width, 2)
            top == centerY - Truncated(height, 2)
        IN  /\ {b.minX, b.maxX} = {left, left + width}
            /\ {b.minY, b.maxY} = {top, top + height}
            /\ b.minX <= b.maxX /\ b.minY <= b.maxY
            /\ b.maxX - b.minX = Abs(width) /\ b.maxY - b.minY = Abs(height)
            /\ (width >= 0 /\ height >= 0) =>
                  /\ b.minX = left /\ b.minY = top
                  /\ b.maxX = left + width /\ b.maxY = top + height

\* a box of odd width and odd height that leaves the frame on the left
BoxOutsideFrameWitness ==
    /\ pc = "decode"
    /\ cur.kind # "none"
    /\ cur.kind = "emit"
    /\ yd[Len(yd)].detBBox.minX < 0
    /\ (yd[Len(yd)].detBBox.maxY - yd[Len(yd)].detBBox.minY) % 2 = 1
    /\ (yd[Len(yd)].detBBox.maxX - yd[Len(yd)].detBBox.minX) % 2 = 1
    /\ cur.row[3] > 0
    /\ cur.row[4] > 0

\* The step of C10: in every iteration of the suppression loop a candidate of zero area is
\* accepted whatever was accepted before it, and a rejection is always due to an
\* accepted box of positive area: the intersection of a zero-area box with any
\* box has area 0.
DegenerateStep ==
    (pc = "nms" /\ k <= Len(yd) /\ k' = k + 1) =>
        LET d == yd[k]
            rejected == ydFiltered' = ydFiltered
            accepted == ydFiltered' = Append(ydFiltered, d)
        IN  /\ Area(d.detBBox) = 0 => accepted
            /\ rejected =>
                  \E df \in Range(ydFiltered) :
                      /\ Area(df.detBBox) > 0
                      /\ 5 * Area(Intersect(d.detBBox, df.detBBox)) > 2 * Area(d.detBBox)
            /\ \A df \in Range(ydFiltered) :
                  Area(df.detBBox) = 0 =>
                      /\ Area(Intersect(d.detBBox, df.detBBox)) = 0
                      /\ Area(Intersect(df.detBBox, d.detBBox)) = 0

\* C10: every step treats zero-area boxes as inert: a zero-area candidate is
\* accepted, and no rejection is caused by an accepted zero-area box.
DegenerateBoxesInert == [][DegenerateStep]_vars

\* a zero-area box accepted after a box that contains it, then a box of positive
\* area accepted after the zero-area box that lies inside it
DegenerateWitness ==
    /\ pc = "nms"
    /\ k = 4
    /\ Len(ydFiltered) = 3
    /\ Area(ydFiltered[1].detBBox) > 0
    /\ Area(ydFiltered[2].detBBox) = 0
    /\ Inside(ydFiltered[2].detBBox, ydFiltered[1].detBBox)
    /\ Area(ydFiltered[3].detBBox) > 0
    /\ Inside(ydFiltered[2].detBBox, ydFiltered[3].detBBox)

----------------------------------------------------------------------------
(* FadeImageInto (edit-video/main.go lines 56-83) *)

\* a float64 weight as a fraction n/d; d = 0 stands for +Inf (n > 0) or -Inf (n < 0)
Rat(n, d) == [n |-> n, d |-> d]

Delays == (-2)..MaxDelay

InitFade ==
    /\ detLayers = <<>> /\ imgSize = <<4, 6>> /\ classLabels = Labels
    /\ pc = "idle" /\ li = 1 /\ j = 1 /\ cur = NoRow /\ yd = <<>> /\ ydFiltered = <<>>
    /\ k = 1 /\ result = None
    /\ fpc = "call"
    /\ delay \in Delays
    /\ opened \in BOOLEAN
    /\ fi = 0
    /\ nFrames = 0
    /\ alpha = None
    /\ beta = None
    /\ written = <<>>
    /\ lastFrame = None
    /\ ferr = None

\* lines 57-66: the two guards, then alpha, beta := 0.0, 1.0 and nFrames
FadeEnter ==
    /\ fpc = "call"
    /\ IF delay <= 0
       THEN /\ ferr' = "Cannot make transition"
            /\ fpc' = "done"
            /\ UNCHANGED <<alpha, beta, nFrames>>
       ELSE IF ~opened
       THEN /\ ferr' = "Cannot write to the file"
            /\ fpc' = "done"
            /\ UNCHANGED <<alpha, beta, nFrames>>
       ELSE /\ alpha' = Rat(0, 1)
            /\ beta' = Rat(1, 1)
            /\ nFrames' = TruncDiv(delay * outputFPS, DelayDen)
            /\ fpc' = "loop"
            /\ UNCHANGED ferr
    /\ UNCHANGED <<delay, opened, fi, written, lastFrame>>
    /\ UNCHANGED yoloVars

\* lines 69-74: the weights of iteration i
WeightsAt(i, n) ==
    IF i = n - 1 THEN [alpha |-> Rat(0, 1), beta |-> Rat(1, 1)]
    ELSE [alpha |-> Rat((n - 1) - i, n - 1), beta |-> Rat(i, n - 1)]

\* lines 68-81, one iteration whose Write succeeds
FadeStep ==
    /\ fpc = "loop"
    /\ fi <= nFrames
    /\ LET w == WeightsAt(fi, nFrames)
           img3 == [src1 |-> "img1", alpha |-> w.alpha, src2 |-> "img2", beta |-> w.beta]
       IN  /\ alpha' = w.alpha
           /\ beta' = w.beta
           /\ lastFrame' = img3
           /\ written' = Append(written, img3)
    /\ fi' = fi + 1
    /\ UNCHANGED <<fpc, delay, opened, nFrames, ferr>>
    /\ UNCHANGED yoloVars

\* lines 68-80, one iteration whose Write returns an error: early return
FadeWriteError ==
    /\ fpc = "loop"
    /\ fi <= nFrames
    /\ LET w == WeightsAt(fi, nFrames)
           img3 == [src1 |-> "img1", alpha |-> w.alpha, src2 |-> "img2", beta |-> w.beta]
       IN  /\ alpha' = w.alpha
           /\ beta' = w.beta
           /\ lastFrame' = img3
    /\ ferr' = "write error"
    /\ fpc' = "done"
    /\ UNCHANGED <<delay, opened, fi, nFrames, written>>
    /\ UNCHANGED yoloVars

\* line 82: the loop is over, err is nil
FadeReturn ==
    /\ fpc = "loop"
    /\ fi > nFrames
    /\ ferr' = "nil"
    /\ fpc' = "done"
    /\ UNCHANGED <<delay, opened, fi, nFrames, alpha, beta, written, lastFrame>>
    /\ UNCHANGED yoloVars

NextFade == FadeEnter \/ FadeStep \/ FadeWriteError \/ FadeReturn

SpecFade == InitFade /\ [][NextFade]_vars

----------------------------------------------------------------------------
(* Properties of FadeImageInto *)

IsFinite(r) == r.d # 0
\* r = v for an integer v
RatIs(r, v) == IsFinite(r) /\ r.n = v * r.d
\* a <= b
RatLeq(a, b) ==
    IF IsFinite(a) /\ IsFinite(b)
    THEN (a.n * b.d - b.n * a.d) * (a.d * b.d) <= 0
    ELSE (~IsFinite(b) /\ b.n > 0) \/ (~IsFinite(a) /\ a.n < 0)
SumIsOne(a, b) ==
    IsFinite(a) /\ IsFinite(b) /\ a.n * b.d + b.n * a.d = a.d * b.d

\* C9: a FadeImageInto call with delay > 0 on an opened writer that returns nil
\* has written a sequence whose first frame has weights (1, 0), whose last
\* frame has weights (0, 1), every frame with alpha + beta = 1 and
\* 0 <= beta <= 1, beta non-decreasing; vwm.lastFrame is the last frame.
\* (Stated here for the calls with nFrames >= 2, as all calls of main are.)
FadeEndsAtSecondImage ==
    (fpc = "done" /\ ferr = "nil" /\ nFrames >= 2) =>
        /\ Len(written) >= 1
        /\ RatIs(written[1].alpha, 1) /\ RatIs(written[1].beta, 0)
        /\ RatIs(written[Len(written)].alpha, 0) /\ RatIs(written[Len(written)].beta, 1)
        /\ \A i \in 1..Len(written) :
              /\ SumIsOne(written[i].alpha, written[i].beta)
              /\ RatLeq(Rat(0, 1), written[i].beta)
              /\ RatLeq(written[i].beta, Rat(1, 1))
        /\ \A i \in 1..(Len(written) - 1) : RatLeq(written[i].beta, written[i + 1].beta)
        /\ lastFrame = written[Len(written)]

====
